---- MODULE Spec2Model ----
(***************************************************************************)
(* NostrReads (src/NostrReads.js): the event encoders (createBookEvent,    *)
(* createBookshelfEvent, createBookReviewEvent, createBookClubEvent), the  *)
(* decoders inside fetchBooks and fetchUserBookshelves, and getZapStats.   *)
(*                                                                         *)
(* JavaScript values:                                                      *)
(*   - a string is a TLA+ string; `undefined` is the value Undefined;      *)
(*   - an optional array is NoList (undefined) or List(s);                 *)
(*   - a string that the code parses or prints as a number (an 'amount'    *)
(*     value, a rating) is a sequence of one-character strings;            *)
(*   - a number is [nan, v]: NaN or the integer v;                         *)
(*   - a call ends Returned(value) or Threw(error).                        *)
(* The signer (getEventHash, signEvent), the clock and the relays are      *)
(* outside the model: an event is [kind, tags, content, pubkey].           *)
(***************************************************************************)
EXTENDS Integers, Sequences, FiniteSets, TLC

VARIABLES op, arg, pc, ret

vars == <<op, arg, pc, ret>>

(* ----------------------------- bounds ---------------------------------- *)

MaxGenres == 2
MaxTags == 3
MaxBatch == 2
MaxEntries == 2
MaxDiscussions == 1
MaxReceipts == 2
MaxZapTags == 2

SeqsUpTo(S, n) == UNION {[1..k -> S] : k \in 0..n}

(* ------------------------- JavaScript values --------------------------- *)

Undefined == "<undefined>"

Truthy(x) == x # Undefined /\ x # ""

\* x || ''
OrEmpty(x) == IF Truthy(x) THEN x ELSE ""

NoList == [given |-> FALSE, items |-> <<>>]

List(s) == [given |-> TRUE, items |-> s]

Returned(v) == [outcome |-> "returned", value |-> v]

Threw(e) == [outcome |-> "threw", value |-> e]

\* tag[i], 0-based; undefined beyond the end
At(tag, i) == IF i + 1 <= Len(tag) THEN tag[i + 1] ELSE Undefined

\* tag.slice(1)
Slice1(tag) == SubSeq(tag, 2, Len(tag))

\* the property key an object is indexed with: String(x)
ToKey(x) == IF x = Undefined THEN "undefined" ELSE x

\* names every plain object {} inherits from Object.prototype
ObjectPrototypeKeys == {"constructor", "toString", "valueOf", "hasOwnProperty", "__proto__"}

getPublicKey(privateKey) == "pub-" \o privateKey

PrivateKeys == {"nsec1"}

(* ------------------------------ kinds ---------------------------------- *)

KindBook == 30051
KindBookshelf == 30052
KindReview == 30053
KindBookClub == 30055
KindZapRequest == 9734
KindZapReceipt == 9735

(* ------------------------- createBookEvent ----------------------------- *)

genreTags(genres) == [i \in 1..Len(genres) |-> <<"genre", genres[i]>>]

createBookTags(bookData) ==
  << <<"d", bookData.id>>,
     <<"title", bookData.title>>,
     <<"authors">> \o bookData.authors.items,
     <<"isbn", OrEmpty(bookData.isbn)>>,
     <<"published", OrEmpty(bookData.publishDate)>>,
     <<"publisher", OrEmpty(bookData.publisher)>>,
     <<"cover", OrEmpty(bookData.coverUrl)>> >>
  \o (IF bookData.genres.given /\ Len(bookData.genres.items) > 0
        THEN genreTags(bookData.genres.items) ELSE <<>>)
  \o (IF Truthy(bookData.summary) THEN << <<"summary", bookData.summary>> >> ELSE <<>>)

\* spreading an undefined `authors` into the array literal throws
createBookEvent(privateKey, bookData) ==
  IF ~bookData.authors.given
    THEN Threw("TypeError")
    ELSE Returned([kind |-> KindBook,
                   tags |-> createBookTags(bookData),
                   content |-> OrEmpty(bookData.description),
                   pubkey |-> getPublicKey(privateKey)])

(* ---------------------- fetchBooks: the Book decoder ------------------- *)

newBook(event) ==
  [pubkey |-> event.pubkey, description |-> event.content, tags |-> <<>>,
   uniqueId |-> Undefined, title |-> Undefined, authors |-> NoList,
   isbn |-> Undefined, publishDate |-> Undefined, publisher |-> Undefined,
   coverUrl |-> Undefined, genres |-> NoList, summary |-> Undefined]

\* the else branch: book.tags[tag[0]] is looked up on a plain object, so an
\* inherited name is truthy, is not replaced by [], and has no push
storeOtherTag(book, tag) ==
  LET k == ToKey(At(tag, 0)) IN
  IF k \in DOMAIN book.tags
    THEN Returned([book EXCEPT !.tags = [@ EXCEPT ![k] = Append(@, Slice1(tag))]])
    ELSE IF k \in ObjectPrototypeKeys
      THEN Threw("TypeError")
      ELSE Returned([book EXCEPT !.tags = @ @@ (k :> << Slice1(tag) >>)])

processBookTag(book, tag) ==
  LET k == At(tag, 0) IN
  CASE k = "d" -> Returned([book EXCEPT !.uniqueId = At(tag, 1)])
    [] k = "title" -> Returned([book EXCEPT !.title = At(tag, 1)])
    [] k = "authors" -> Returned([book EXCEPT !.authors = List(Slice1(tag))])
    [] k = "isbn" -> Returned([book EXCEPT !.isbn = At(tag, 1)])
    [] k = "published" -> Returned([book EXCEPT !.publishDate = At(tag, 1)])
    [] k = "publisher" -> Returned([book EXCEPT !.publisher = At(tag, 1)])
    [] k = "cover" -> Returned([book EXCEPT !.coverUrl = At(tag, 1)])
    [] k = "genre" -> Returned([book EXCEPT !.genres = List(Append(@.items, At(tag, 1)))])
    [] k = "summary" -> Returned([book EXCEPT !.summary = At(tag, 1)])
    [] OTHER -> storeOtherTag(book, tag)

RECURSIVE processBookTags(_, _, _)
processBookTags(tags, i, book) ==
  IF i > Len(tags)
    THEN Returned(book)
    ELSE LET r == processBookTag(book, tags[i]) IN
         IF r.outcome = "threw" THEN r ELSE processBookTags(tags, i + 1, r.value)

decodeBook(event) == processBookTags(event.tags, 1, newBook(event))

\* events.map(...) over the callback's outcomes: the first callback that
\* throws ends the whole call
RECURSIVE mapEvents(_, _, _)
mapEvents(results, i, acc) ==
  IF i > Len(results)
    THEN Returned(acc)
    ELSE IF results[i].outcome = "threw"
      THEN results[i]
      ELSE mapEvents(results, i + 1, Append(acc, results[i].value))

fetchBooks(events) ==
  mapEvents([i \in 1..Len(events) |-> decodeBook(events[i])], 1, <<>>)

(* ----------------------- createBookshelfEvent -------------------------- *)

bookTag(book) ==
  <<"book", book.eventId, book.status>>
  \o (IF Truthy(book.progress) THEN <<book.progress>> ELSE <<>>)
  \o (IF Truthy(book.completedDate) THEN <<book.completedDate>> ELSE <<>>)

bookTags(books) == [i \in 1..Len(books) |-> bookTag(books[i])]

createBookshelfTags(shelfData) ==
  << <<"d", shelfData.id>>, <<"name", shelfData.name>> >>
  \o (IF Truthy(shelfData.description)
        THEN << <<"description", shelfData.description>> >> ELSE <<>>)
  \o (IF shelfData.books.given /\ Len(shelfData.books.items) > 0
        THEN bookTags(shelfData.books.items) ELSE <<>>)

createBookshelfEvent(privateKey, shelfData) ==
  Returned([kind |-> KindBookshelf,
            tags |-> createBookshelfTags(shelfData),
            content |-> OrEmpty(shelfData.notes),
            pubkey |-> getPublicKey(privateKey)])

(* ---------------- fetchUserBookshelves: the Bookshelf decoder ---------- *)

newBookshelf(event) ==
  [pubkey |-> event.pubkey, notes |-> event.content, books |-> <<>>,
   uniqueId |-> Undefined, name |-> Undefined, description |-> Undefined]

shelfEntry(tag) ==
  [eventId |-> At(tag, 1), status |-> At(tag, 2),
   progress |-> At(tag, 3), completedDate |-> At(tag, 4)]

\* processShelfTag with the entry put in front of the ones already decoded
processShelfTagPrepend(bookshelf, tag) ==
  LET k == At(tag, 0) IN
  CASE k = "d" -> [bookshelf EXCEPT !.uniqueId = At(tag, 1)]
    [] k = "name" -> [bookshelf EXCEPT !.name = At(tag, 1)]
    [] k = "description" -> [bookshelf EXCEPT !.description = At(tag, 1)]
    [] k = "book" -> [bookshelf EXCEPT !.books = <<shelfEntry(tag)>> \o @]
    [] OTHER -> bookshelf

\* a tag of any other key is skipped
processShelfTag(bookshelf, tag) ==
  LET k == At(tag, 0) IN
  CASE k = "d" -> [bookshelf EXCEPT !.uniqueId = At(tag, 1)]
    [] k = "name" -> [bookshelf EXCEPT !.name = At(tag, 1)]
    [] k = "description" -> [bookshelf EXCEPT !.description = At(tag, 1)]
    [] k = "book" -> [bookshelf EXCEPT !.books = Append(@, shelfEntry(tag))]
    [] OTHER -> bookshelf

RECURSIVE processShelfTags(_, _, _)
processShelfTags(tags, i, bookshelf) ==
  IF i > Len(tags)
    THEN bookshelf
    ELSE processShelfTags(tags, i + 1, processShelfTag(bookshelf, tags[i]))

decodeBookshelf(event) == Returned(processShelfTags(event.tags, 1, newBookshelf(event)))

fetchUserBookshelves(events) ==
  mapEvents([i \in 1..Len(events) |-> decodeBookshelf(events[i])], 1, <<>>)

(* ----------------------- createBookReviewEvent ------------------------- *)

\* reviewData.rating.toString(): undefined has no toString; a number prints
\* as its decimal digits, a string is itself
ratingToString(rating) ==
  IF rating.type = "undefined" THEN Threw("TypeError") ELSE Returned(rating.chars)

createBookReviewTags(reviewData) ==
  << <<"e", reviewData.bookEventId>>,
     <<"rating", ratingToString(reviewData.rating).value>> >>
  \o (IF Truthy(reviewData.readDate) THEN << <<"read", reviewData.readDate>> >> ELSE <<>>)
  \o (IF Truthy(reviewData.subject) THEN << <<"subject", reviewData.subject>> >> ELSE <<>>)

createBookReviewEvent(privateKey, reviewData) ==
  IF ratingToString(reviewData.rating).outcome = "threw"
    THEN Threw("TypeError")
    ELSE Returned([kind |-> KindReview,
                   tags |-> createBookReviewTags(reviewData),
                   content |-> OrEmpty(reviewData.content),
                   pubkey |-> getPublicKey(privateKey)])

(* ------------------------ createBookClubEvent -------------------------- *)

discussionTags(discussions) ==
  [i \in 1..Len(discussions) |->
     <<"discussion", discussions[i].date, discussions[i].topic,
       OrEmpty(discussions[i].pages)>>]

createBookClubTags(clubData) ==
  << <<"d", clubData.id>>, <<"name", clubData.name>>, <<"e", clubData.bookEventId>> >>
  \o (IF Truthy(clubData.startDate) THEN << <<"start", clubData.startDate>> >> ELSE <<>>)
  \o (IF Truthy(clubData.endDate) THEN << <<"end", clubData.endDate>> >> ELSE <<>>)
  \o (IF clubData.discussions.given /\ Len(clubData.discussions.items) > 0
        THEN discussionTags(clubData.discussions.items) ELSE <<>>)

createBookClubEvent(privateKey, clubData) ==
  Returned([kind |-> KindBookClub,
            tags |-> createBookClubTags(clubData),
            content |-> OrEmpty(clubData.description),
            pubkey |-> getPublicKey(privateKey)])

(* ----------------------------- getZapStats ----------------------------- *)

NaN == [nan |-> TRUE, v |-> 0]

Num(n) == [nan |-> FALSE, v |-> n]

\* a + b on numbers: NaN is absorbing
Plus(a, b) == IF a.nan \/ b.nan THEN NaN ELSE Num(a.v + b.v)

Digits == {"0", "1", "2", "3", "4", "5", "6", "7", "8", "9"}

DigitValue(c) ==
  CASE c = "0" -> 0 [] c = "1" -> 1 [] c = "2" -> 2 [] c = "3" -> 3 [] c = "4" -> 4
    [] c = "5" -> 5 [] c = "6" -> 6 [] c = "7" -> 7 [] c = "8" -> 8 [] c = "9" -> 9

RECURSIVE skipWhitespace(_, _)
skipWhitespace(chars, i) ==
  IF i <= Len(chars) /\ chars[i] = " " THEN skipWhitespace(chars, i + 1) ELSE i

RECURSIVE digitsValue(_, _, _)
digitsValue(chars, i, acc) ==
  IF i <= Len(chars) /\ chars[i] \in Digits
    THEN digitsValue(chars, i + 1, acc * 10 + DigitValue(chars[i]))
    ELSE acc

\* parseInt(chars, 10): leading blanks, an optional sign, then the longest run
\* of digits; NaN when that run is empty; what follows the run is ignored
parseInt(chars) ==
  LET s == skipWhitespace(chars, 1)
      signed == s <= Len(chars) /\ chars[s] \in {"-", "+"}
      d == IF signed THEN s + 1 ELSE s
  IN IF d <= Len(chars) /\ chars[d] \in Digits
       THEN Num((IF signed /\ chars[s] = "-" THEN -1 ELSE 1) * digitsValue(chars, d, 0))
       ELSE NaN

\* receipt.tags.find(tag => tag[0] === 'amount'): 0 when there is none
RECURSIVE findAmountTag(_, _)
findAmountTag(tags, i) ==
  IF i > Len(tags) THEN 0
  ELSE IF Len(tags[i]) >= 1 /\ tags[i][1] = "amount" THEN i
  ELSE findAmountTag(tags, i + 1)

\* the reduce callback
addReceipt(sum, receipt) ==
  LET i == findAmountTag(receipt.tags, 1) IN
  IF i # 0 /\ Len(receipt.tags[i]) >= 2 /\ receipt.tags[i][2] # <<>>
    THEN Plus(sum, parseInt(receipt.tags[i][2]))
    ELSE sum

RECURSIVE reduceReceipts(_, _, _)
reduceReceipts(receipts, i, sum) ==
  IF i > Len(receipts) THEN sum
  ELSE reduceReceipts(receipts, i + 1, addReceipt(sum, receipts[i]))

zapReceipts(events) == SelectSeq(events, LAMBDA e : e.kind = KindZapReceipt)

getZapStats(events) ==
  Returned([totalSats |-> reduceReceipts(zapReceipts(events), 1, Num(0)),
            zapCount |-> Len(zapReceipts(events)),
            uniqueZappers |->
              Cardinality({zapReceipts(events)[i].pubkey : i \in 1..Len(zapReceipts(events))})])

(* ------------------------------ inputs --------------------------------- *)

Genres == {"scifi", "classic"}

BookInputs ==
  [id : {Undefined, "dune"},
   title : {Undefined, "Dune"},
   authors : {NoList, List(<<"FH">>), List(<<"FH", "BH">>)},
   isbn : {Undefined, "", "978"},
   publishDate : {Undefined, "1965"},
   publisher : {Undefined, "Ace"},
   coverUrl : {Undefined, "http"},
   genres : {NoList} \cup {List(g) : g \in SeqsUpTo(Genres, MaxGenres)},
   summary : {Undefined, "", "sum"},
   description : {Undefined, "desc"}]

\* tags a relay may hand back for a kind-30051 event
BookTagAlphabet ==
  { <<"d", "a">>, <<"d", "b">>, <<"d">>, <<"title", "T">>, <<"isbn", "">>,
    <<"genre", "scifi">>, <<"genre", "classic">>,
    <<"custom", "x", "y">>, <<"custom", "z">>, <<"constructor", "x">>, <<>> }

ForeignBookEvents ==
  {[kind |-> KindBook, tags |-> t, content |-> "", pubkey |-> "pub-x"] :
     t \in SeqsUpTo(BookTagAlphabet, MaxTags)}

\* a mixed stream: short events of kinds the program names and of kind 99999,
\* which it does not
StreamEvents ==
  {[kind |-> k, tags |-> t, content |-> "", pubkey |-> "pub-x"] :
     k \in {KindBook, KindBookshelf, 99999},
     t \in { <<>>, << <<"d", "a">> >>, << <<"d", "a">>, <<"title", "T">> >>,
             << <<"d", "s">>, <<"name", "N">>, <<"book", "ev1", "read">> >> }}

BookBatches ==
  {<<e>> : e \in ForeignBookEvents} \cup SeqsUpTo(StreamEvents, MaxBatch)

ShelfEntries ==
  [eventId : {"ev1"}, status : {"read", "reading"},
   progress : {Undefined, "50%"}, completedDate : {Undefined, "2023-05-15"}]
  \cup
  [eventId : {"ev2"}, status : {"custom-status"},
   progress : {Undefined, ""}, completedDate : {Undefined}]

ShelfInputs ==
  [id : {Undefined, "shelf"},
   name : {"Favorites"},
   description : {Undefined, "", "about"},
   notes : {Undefined, "notes"},
   books : {NoList} \cup {List(b) : b \in SeqsUpTo(ShelfEntries, MaxEntries)}]

\* tags a relay may hand back for a kind-30052 event
ShelfTagAlphabet ==
  { <<"d", "a">>, <<"d", "b">>, <<"d">>, <<"name", "N">>, <<"name", "M">>,
    <<"description", "D">>, <<"book", "ev1", "read">>, <<"book", "ev2", "reading", "10%">>,
    <<"book", "ev3">>, <<"book">>, <<"constructor", "x">>, <<>> }

ForeignShelfEvents ==
  {[kind |-> KindBookshelf, tags |-> t, content |-> "", pubkey |-> "pub-x"] :
     t \in SeqsUpTo(ShelfTagAlphabet, MaxTags)}

ShelfBatches ==
  {<<e>> : e \in ForeignShelfEvents} \cup SeqsUpTo(StreamEvents, MaxBatch)

Ratings ==
  { [type |-> "undefined", chars |-> <<>>],
    [type |-> "number", chars |-> <<"5">>],
    [type |-> "number", chars |-> <<"4", ".", "5">>],
    [type |-> "string", chars |-> <<"5">>],
    [type |-> "string", chars |-> <<"a", "b">>],
    [type |-> "string", chars |-> <<>>] }

ReviewInputs ==
  [bookEventId : {Undefined, "ev1"},
   rating : Ratings,
   readDate : {Undefined, "", "2023-05-15"},
   subject : {Undefined, "subject"},
   content : {Undefined, "text"}]

Discussions ==
  [date : {"2024-01-01"}, topic : {"ch1", "ch2"}, pages : {Undefined, "", "1-50"}]

ClubInputs ==
  [id : {Undefined, "club"},
   name : {"Club"},
   bookEventId : {Undefined, "ev1"},
   startDate : {Undefined, "", "2024-01-01"},
   endDate : {Undefined, "2024-02-01"},
   description : {Undefined, "desc"},
   discussions : {NoList} \cup {List(d) : d \in SeqsUpTo(Discussions, MaxDiscussions)}]

\* tags of a zap receipt; the value of a tag is a sequence of characters
ZapTagAlphabet ==
  { <<"amount", <<"1", "0", "0", "0">> >>, <<"amount", <<"5", "0", "0">> >>,
    <<"amount", <<"a", "b", "c">> >>, <<"amount", <<"1", "2", "x">> >>,
    <<"amount", <<>> >>, <<"amount">>, <<"p", <<"k">> >> }

ZapEvents ==
  {[kind |-> KindZapReceipt, tags |-> t, pubkey |-> p] :
     t \in SeqsUpTo(ZapTagAlphabet, MaxZapTags), p \in {"A", "B"}}
  \cup
  {[kind |-> k, tags |-> << <<"amount", <<"7">> >> >>, pubkey |-> "A"] :
     k \in {KindZapRequest, KindBook}}

ZapBatches == SeqsUpTo(ZapEvents, MaxReceipts)

(* ------------------------------ actions -------------------------------- *)

Init ==
  /\ pc = "ready"
  /\ ret = Undefined
  /\ \/ op = "createBookEvent" /\ arg \in BookInputs
     \/ op = "createBookshelfEvent" /\ arg \in ShelfInputs
     \/ op = "createBookReviewEvent" /\ arg \in ReviewInputs
     \/ op = "createBookClubEvent" /\ arg \in ClubInputs
     \/ op = "fetchBooks" /\ arg \in BookBatches
     \/ op = "fetchUserBookshelves" /\ arg \in ShelfBatches
     \/ op = "getZapStats" /\ arg \in ZapBatches

CreateBookEvent ==
  /\ pc = "ready" /\ op = "createBookEvent"
  /\ \E privateKey \in PrivateKeys : ret' = createBookEvent(privateKey, arg)
  /\ pc' = "done"
  /\ UNCHANGED <<op, arg>>

CreateBookshelfEvent ==
  /\ pc = "ready" /\ op = "createBookshelfEvent"
  /\ \E privateKey \in PrivateKeys : ret' = createBookshelfEvent(privateKey, arg)
  /\ pc' = "done"
  /\ UNCHANGED <<op, arg>>

CreateBookReviewEvent ==
  /\ pc = "ready" /\ op = "createBookReviewEvent"
  /\ \E privateKey \in PrivateKeys : ret' = createBookReviewEvent(privateKey, arg)
  /\ pc' = "done"
  /\ UNCHANGED <<op, arg>>

CreateBookClubEvent ==
  /\ pc = "ready" /\ op = "createBookClubEvent"
  /\ \E privateKey \in PrivateKeys : ret' = createBookClubEvent(privateKey, arg)
  /\ pc' = "done"
  /\ UNCHANGED <<op, arg>>

FetchBooks ==
  /\ pc = "ready" /\ op = "fetchBooks"
  /\ ret' = fetchBooks(arg)
  /\ pc' = "done"
  /\ UNCHANGED <<op, arg>>

FetchUserBookshelves ==
  /\ pc = "ready" /\ op = "fetchUserBookshelves"
  /\ ret' = fetchUserBookshelves(arg)
  /\ pc' = "done"
  /\ UNCHANGED <<op, arg>>

GetZapStats ==
  /\ pc = "ready" /\ op = "getZapStats"
  /\ ret' = getZapStats(arg)
  /\ pc' = "done"
  /\ UNCHANGED <<op, arg>>

Next ==
  \/ CreateBookEvent
  \/ CreateBookshelfEvent
  \/ CreateBookReviewEvent
  \/ CreateBookClubEvent
  \/ FetchBooks
  \/ FetchUserBookshelves
  \/ GetZapStats

Spec == Init /\ [][Next]_vars

(* the Bookshelf encoder and decoder alone *)

InitShelf ==
  /\ pc = "ready"
  /\ ret = Undefined
  /\ \/ op = "createBookshelfEvent" /\ arg \in ShelfInputs
     \/ op = "fetchUserBookshelves" /\ arg \in ShelfBatches

NextShelf ==
  \/ CreateBookshelfEvent
  \/ FetchUserBookshelves

ShelfSpec == InitShelf /\ [][NextShelf]_vars

(* ------------------------------ claims --------------------------------- *)

Done(o) == pc = "done" /\ op = o

Encoders ==
  {"createBookEvent", "createBookshelfEvent", "createBookReviewEvent", "createBookClubEvent"}

KeyOf(tag) == At(tag, 0)

TagsWithKey(tags, k) == SelectSeq(tags, LAMBDA t : KeyOf(t) = k)

\* absent when empty or not provided
AbsentIfEmpty(x) == IF x = "" THEN Undefined ELSE x

BookRequiredPresent(B) == Truthy(B.id) /\ Truthy(B.title) /\ B.authors.given

\* C1: for every Book input B with id, title and authors present, decoding the
\* event createBookEvent(B) returns with the Book decoder of fetchBooks gives
\* back every field of B, an empty or missing field decoding to absent.
C1_BookRoundTrip ==
  (Done("createBookEvent") /\ BookRequiredPresent(arg)) =>
    /\ ret.outcome = "returned"
    /\ LET d == fetchBooks(<<ret.value>>) IN
       /\ d.outcome = "returned"
       /\ d.value[1].uniqueId = arg.id
       /\ d.value[1].title = arg.title
       /\ d.value[1].authors = List(arg.authors.items)
       /\ d.value[1].isbn = AbsentIfEmpty(arg.isbn)
       /\ d.value[1].publishDate = AbsentIfEmpty(arg.publishDate)
       /\ d.value[1].publisher = AbsentIfEmpty(arg.publisher)
       /\ d.value[1].coverUrl = AbsentIfEmpty(arg.coverUrl)
       /\ d.value[1].genres.items = arg.genres.items
       /\ d.value[1].summary = AbsentIfEmpty(arg.summary)
       /\ d.value[1].description = AbsentIfEmpty(arg.description)

\* the amount a receipt adds when only parseable amounts count
ParseableAmount(receipt) ==
  LET a == TagsWithKey(receipt.tags, "amount") IN
  IF Len(a) > 0 /\ Len(a[1]) >= 2 /\ ~parseInt(a[1][2]).nan
    THEN parseInt(a[1][2]).v
    ELSE 0

RECURSIVE SumParseable(_, _)
SumParseable(receipts, i) ==
  IF i > Len(receipts) THEN 0 ELSE ParseableAmount(receipts[i]) + SumParseable(receipts, i + 1)

\* C2: getZapStats counts every kind-9735 event, and totalSats is the integer
\* sum of the parseable amounts: a receipt with no 'amount' tag or with a
\* non-numeric first 'amount' value adds 0, and totalSats is never NaN.
C2_ZapTotals ==
  Done("getZapStats") =>
    /\ ret.outcome = "returned"
    /\ ret.value.zapCount = Len(SelectSeq(arg, LAMBDA e : e.kind = KindZapReceipt))
    /\ ~ret.value.totalSats.nan
    /\ ret.value.totalSats.v = SumParseable(SelectSeq(arg, LAMBDA e : e.kind = KindZapReceipt), 1)

RECURSIVE AllDigits(_, _)
AllDigits(chars, i) ==
  i > Len(chars) \/ (chars[i] \in Digits /\ AllDigits(chars, i + 1))

IsBase10Integer(chars) ==
  LET d == IF Len(chars) > 0 /\ chars[1] \in {"-", "+"} THEN 2 ELSE 1
  IN d <= Len(chars) /\ AllDigits(chars, d)

LacksRequired(o, a) ==
  CASE o = "createBookReviewEvent" ->
         \/ a.bookEventId = Undefined
         \/ a.rating.type = "undefined"
         \/ ~IsBase10Integer(a.rating.chars)
    [] o = "createBookEvent" -> a.id = Undefined /\ Truthy(a.title) /\ a.authors.given
    [] OTHER -> a.id = Undefined

\* C3: an encode call whose input lacks a required field (id; bookEventId or
\* rating for a review), or whose rating is no base-10 integer, ends in a
\* ValidationError and returns no event.
C3_ValidationError ==
  (pc = "done" /\ op \in Encoders /\ LacksRequired(op, arg)) =>
    ret = Threw("ValidationError")

RecognizedKinds ==
  {KindBook, KindBookshelf, KindReview, KindBookClub, KindZapRequest, KindZapReceipt}

Decoders == {"fetchBooks", "fetchUserBookshelves"}

\* a decoded Book or Bookshelf object
DecodedObject(x) == "uniqueId" \in DOMAIN x

decodeWith(o, event) == IF o = "fetchBooks" THEN decodeBook(event) ELSE decodeBookshelf(event)

\* C4: in a batch handed to a decoder, an event of an unrecognized kind is not
\* decoded into a Book or Bookshelf object, and every event of a recognized
\* kind in the same batch is decoded as it is alone.
C4_UnsupportedKind ==
  (pc = "done" /\ op \in Decoders /\ \E i \in 1..Len(arg) : arg[i].kind \notin RecognizedKinds) =>
    \A i \in 1..Len(arg) :
      IF arg[i].kind \notin RecognizedKinds
        THEN ~(ret.outcome = "returned" /\ DecodedObject(ret.value[i]))
        ELSE ret.outcome = "returned" /\ ret.value[i] = decodeWith(op, arg[i]).value

\* the required fields of an encoder's input are there
RequiredPresent(o, a) ==
  CASE o = "createBookEvent" -> BookRequiredPresent(a)
    [] o = "createBookReviewEvent" ->
         Truthy(a.bookEventId) /\ a.rating.type # "undefined" /\ IsBase10Integer(a.rating.chars)
    [] o = "createBookClubEvent" -> Truthy(a.id) /\ Truthy(a.name) /\ Truthy(a.bookEventId)
    [] OTHER -> Truthy(a.id) /\ Truthy(a.name)

\* position j of a tag holds '' (the value of a 'rating' tag is a sequence of
\* characters)
EmptyString(tag, j) ==
  IF KeyOf(tag) = "rating" THEN tag[j] = <<>> ELSE tag[j] = ""

\* C5: no tag of an event an encoder returns holds an empty string: an absent
\* or empty field gives no tag, an absent trailing position a shorter tag.
C5_NoEmptyTagValue ==
  (pc = "done" /\ op \in Encoders /\ RequiredPresent(op, arg) /\ ret.outcome = "returned") =>
    \A i \in 1..Len(ret.value.tags) :
      \A j \in 2..Len(ret.value.tags[i]) :
        ~EmptyString(ret.value.tags[i], j)

RepeatableKeys == {"genre"}

CompoundKeys == {"book", "discussion"}

\* scalar 1, repeatable 2, compound 3
TagClass(tag) ==
  IF KeyOf(tag) \in RepeatableKeys THEN 2 ELSE IF KeyOf(tag) \in CompoundKeys THEN 3 ELSE 1

\* C6: in the tags of a Book, Bookshelf or BookClub event an encoder returns,
\* 'd' is first, every scalar tag precedes every repeatable tag and every
\* repeatable tag precedes every compound tag.
C6_TagOrder ==
  (/\ pc = "done" /\ op \in Encoders \ {"createBookReviewEvent"}
   /\ RequiredPresent(op, arg) /\ ret.outcome = "returned") =>
    /\ KeyOf(ret.value.tags[1]) = "d"
    /\ \A i, j \in 1..Len(ret.value.tags) :
         i < j => TagClass(ret.value.tags[i]) <= TagClass(ret.value.tags[j])

\* the value of the last tag of key k, absent when there is none
LastValue(tags, k) ==
  LET t == TagsWithKey(tags, k) IN IF Len(t) = 0 THEN Undefined ELSE At(t[Len(t)], 1)

\* C7: decoding never throws, whatever the tag list, and each single-value
\* field of a decoded Book or Bookshelf is the value of the last tag of its key.
C7_LastWinsNoThrow ==
  /\ Done("fetchBooks") =>
       /\ ret.outcome = "returned"
       /\ \A i \in 1..Len(arg) :
            /\ ret.value[i].uniqueId = LastValue(arg[i].tags, "d")
            /\ ret.value[i].title = LastValue(arg[i].tags, "title")
            /\ ret.value[i].isbn = LastValue(arg[i].tags, "isbn")
            /\ ret.value[i].publishDate = LastValue(arg[i].tags, "published")
            /\ ret.value[i].publisher = LastValue(arg[i].tags, "publisher")
            /\ ret.value[i].coverUrl = LastValue(arg[i].tags, "cover")
            /\ ret.value[i].summary = LastValue(arg[i].tags, "summary")
            /\ LET a == TagsWithKey(arg[i].tags, "authors") IN
               ret.value[i].authors = IF Len(a) = 0 THEN NoList ELSE List(Slice1(a[Len(a)]))
  /\ Done("fetchUserBookshelves") =>
       /\ ret.outcome = "returned"
       /\ \A i \in 1..Len(arg) :
            /\ ret.value[i].uniqueId = LastValue(arg[i].tags, "d")
            /\ ret.value[i].name = LastValue(arg[i].tags, "name")
            /\ ret.value[i].description = LastValue(arg[i].tags, "description")

BookKeys ==
  {"d", "title", "authors", "isbn", "published", "publisher", "cover", "genre", "summary"}

OtherTags(tags) == SelectSeq(tags, LAMBDA t : KeyOf(t) \notin BookKeys)

ArgLists(tags) == [i \in 1..Len(tags) |-> Slice1(tags[i])]

\* C8: the catch-all mapping of a decoded Book holds, under each key that is
\* not a Book key, the argument lists of all tags of that key in tag order,
\* and holds nothing under a Book key.
C8_CatchAll ==
  (Done("fetchBooks") /\ \E i \in 1..Len(arg) : Len(OtherTags(arg[i].tags)) > 0) =>
    /\ ret.outcome = "returned"
    /\ \A i \in 1..Len(arg) :
         /\ DOMAIN ret.value[i].tags
              = {ToKey(KeyOf(OtherTags(arg[i].tags)[n])) : n \in 1..Len(OtherTags(arg[i].tags))}
         /\ \A k \in DOMAIN ret.value[i].tags :
              ret.value[i].tags[k]
                = ArgLists(SelectSeq(arg[i].tags, LAMBDA t : ToKey(KeyOf(t)) = k))

BookTagsOf(tags) == TagsWithKey(tags, "book")

\* C9: createBookshelfEvent emits one 'book' tag per entry, in entry order, and
\* decoding the event gives as many books, the i-th with the eventId and the
\* status of the i-th entry; a decoded 'book' tag of three elements has
\* neither progress nor completedDate, and decoding it does not throw.
C9_ShelfEntriesRoundTrip ==
  /\ Done("createBookshelfEvent") =>
       /\ ret.outcome = "returned"
       /\ LET entries == arg.books.items
              emitted == BookTagsOf(ret.value.tags)
              d == fetchUserBookshelves(<<ret.value>>)
          IN /\ Len(emitted) = Len(entries)
             /\ \A i \in 1..Len(entries) :
                  SubSeq(emitted[i], 1, 3) = <<"book", entries[i].eventId, entries[i].status>>
             /\ d.outcome = "returned"
             /\ Len(d.value[1].books) = Len(entries)
             /\ \A i \in 1..Len(entries) :
                  /\ d.value[1].books[i].eventId = entries[i].eventId
                  /\ d.value[1].books[i].status = entries[i].status
  /\ Done("fetchUserBookshelves") =>
       /\ ret.outcome = "returned"
       /\ \A e \in 1..Len(arg) :
            /\ Len(ret.value[e].books) = Len(BookTagsOf(arg[e].tags))
            /\ \A i \in 1..Len(BookTagsOf(arg[e].tags)) :
                 Len(BookTagsOf(arg[e].tags)[i]) = 3 =>
                   /\ ret.value[e].books[i].eventId = BookTagsOf(arg[e].tags)[i][2]
                   /\ ret.value[e].books[i].status = BookTagsOf(arg[e].tags)[i][3]
                   /\ ret.value[e].books[i].progress = Undefined
                   /\ ret.value[e].books[i].completedDate = Undefined

\* two entries of different books went through the encoder and the decoder in
\* order, the second as a 'book' tag of three elements
C9_Witness ==
  /\ Done("createBookshelfEvent")
  /\ Len(arg.books.items) = 2
  /\ arg.books.items[1].eventId # arg.books.items[2].eventId
  /\ Len(BookTagsOf(ret.value.tags)[2]) = 3
  /\ LET d == fetchUserBookshelves(<<ret.value>>) IN
     /\ d.outcome = "returned"
     /\ d.value[1].books[1].eventId = arg.books.items[1].eventId
     /\ d.value[1].books[2].eventId = arg.books.items[2].eventId
     /\ d.value[1].books[2].progress = Undefined

GenreValues(tags) ==
  [i \in 1..Len(TagsWithKey(tags, "genre")) |-> At(TagsWithKey(tags, "genre")[i], 1)]

\* C10: a decoded Book holds in genres the value of every 'genre' tag of the
\* event, as many as there are, in tag order, whatever other tags lie between.
C10_GenresAccumulate ==
  (Done("fetchBooks") /\ \E i \in 1..Len(arg) : Len(TagsWithKey(arg[i].tags, "genre")) > 0) =>
    /\ ret.outcome = "returned"
    /\ \A i \in 1..Len(arg) : ret.value[i].genres.items = GenreValues(arg[i].tags)

\* C11: for every shelf entry, whichever of progress and completedDate it has,
\* decoding the event createBookshelfEvent returns gives the entry's progress
\* and completedDate back (absent when the entry has none): a completedDate
\* without progress is not decoded as progress.
C11_ProgressDateRoundTrip ==
  (Done("createBookshelfEvent") /\ Truthy(arg.id)) =>
    /\ ret.outcome = "returned"
    /\ LET d == fetchUserBookshelves(<<ret.value>>) IN
       /\ d.outcome = "returned"
       /\ Len(d.value[1].books) = Len(arg.books.items)
       /\ \A i \in 1..Len(arg.books.items) :
            /\ d.value[1].books[i].progress = AbsentIfEmpty(arg.books.items[i].progress)
            /\ d.value[1].books[i].completedDate
                 = AbsentIfEmpty(arg.books.items[i].completedDate)

====
